---- MODULE Spec2Model ----
(***************************************************************************)
(* Model of fb_ad_monitor.py (class fbRssAdMonitor): the ingestion pass    *)
(* check_for_new_ads under its non-blocking job_lock, the ad_changes table *)
(* it writes, prune_old_ads, and the feed request rss /                    *)
(* generate_rss_feed_from_db that reads the table and the shared           *)
(* self.rss_feed.items list.                                               *)
(*                                                                         *)
(* Conventions.                                                            *)
(*  - A Python str is a sequence of tokens (characters, or for hrefs the   *)
(*    path pieces), so that startswith, split, lower and `in` are computed *)
(*    and not assumed.                                                     *)
(*  - Optional[x] is a sequence of length 0 (None) or 1.                   *)
(*  - An instant is an integer number of days, and the clock advances in   *)
(*    ticks of TickDays days.                                              *)
(*    isoformat() / isoparse() wrap and unwrap it.  ISO-8601 UTC strings   *)
(*    of datetime.now(timezone.utc) compare as text the way the instants   *)
(*    compare, which is what the SQL comparisons rely on.                  *)
(*  - The ad_changes table is a set of rows; the AUTOINCREMENT id column,  *)
(*    which no statement reads, is left out.  A statement and its commit   *)
(*    are one write: it takes effect as a whole or raises and leaves the   *)
(*    table as it was, so that conn.rollback() has nothing to undo.        *)
(***************************************************************************)
EXTENDS Integers, Sequences, FiniteSets, TLC

(***************************************************************************)
(* Bounds of the model.                                                    *)
(***************************************************************************)
\* a feed build called on its own has LIMIT 1..MaxLimit, or the program's
MaxLimit == 2
\* the clock runs from day 0 to day MaxTicks * TickDays
MaxTicks == 2
\* a fetched page holds at most MaxAnchors <a href> elements
MaxAnchors == 2

(***************************************************************************)
(* Program constants.                                                      *)
(***************************************************************************)
\* prune_old_ads(conn, days_to_keep = 14)
days_to_keep == 14
\* timedelta(days=7) of generate_rss_feed_from_db
feed_days == 7
\* LIMIT 100 of generate_rss_feed_from_db
feed_limit == 100
\* instants are whole days; the clock advances TickDays days at a time
TickDays == days_to_keep

FACEBOOK_BASE_URL == <<"https://facebook.com">>
ITEM_PREFIX == "/marketplace/item/"

(***************************************************************************)
(* Python str operations on token sequences.                               *)
(***************************************************************************)
LowerChar(c) ==
    CASE c = "A" -> "a"
      [] c = "B" -> "b"
      [] c = "C" -> "c"
      [] c = "E" -> "e"
      [] c = "F" -> "f"
      [] c = "R" -> "r"
      [] OTHER -> c

Lower(s) == [i \in 1..Len(s) |-> LowerChar(s[i])]

StartsWith(s, p) == Len(s) >= Len(p) /\ SubSeq(s, 1, Len(p)) = p

\* Python `k in s` for two str
Contains(s, k) ==
    \E i \in 0..(Len(s) - Len(k)) : SubSeq(s, i + 1, i + Len(k)) = k

\* fault: the query string stays in the link
BeforeQueryKept(href) == href

\* href.split('?')[0]
BeforeQuery(href) ==
    LET qs == {i \in 1..Len(href) : href[i] = "?"}
    IN  IF qs = {} THEN href
        ELSE SubSeq(href, 1, (CHOOSE i \in qs : \A j \in qs : i <= j) - 1)

\* hashlib.md5(content).hexdigest(): a digest, taken collision free
get_ads_hash(content) == <<"md5">> \o content

(***************************************************************************)
(* Configuration loaded by load_from_json: the monitored search pages in   *)
(* the order of the url_filters keys, and the policy of each.              *)
(* JSON values are tagged with their Python type.                          *)
(***************************************************************************)
JStr(s) == [t |-> "str", v |-> s]
JInt(n) == [t |-> "int", v |-> n]
JList(l) == [t |-> "list", v |-> l]
JDict(d) == [t |-> "dict", v |-> d]

currency == <<"$">>

\* the search pages a configuration can name
S1 == <<"https://facebook.com", "/marketplace/search", "?", "query=1">>
S2 == <<"https://facebook.com", "/marketplace/search", "?", "query=2">>
Sources == {S1, S2}

\* S1 wants "a" in the title; S2 has an empty policy
url_filters ==
    [u \in Sources |->
        IF u = S1
        THEN JDict((<<"level", "1">> :> JList(<<JStr(<<"a">>)>>)))
        ELSE JDict(<<>>)]

(***************************************************************************)
(* apply_filters.  Result "raise" stands for the except branch.            *)
(***************************************************************************)
Digits == {"0", "1", "2", "3"}

\* k.startswith('level') and k[5:].isdigit()
IsLevelKey(k) == Len(k) = 2 /\ k[1] = "level" /\ k[2] \in Digits

DigitValue(d) == CASE d = "0" -> 0 [] d = "1" -> 1 [] d = "2" -> 2 [] OTHER -> 3

\* bool(x) of a JSON value
Truthy(j) ==
    CASE j.t = "dict" -> DOMAIN j.v # {}
      [] j.t = "list" -> Len(j.v) > 0
      [] j.t = "str" -> Len(j.v) > 0
      [] OTHER -> j.v # 0

\* sorted(level keys, key=int(x[5:])) as a sequence
RECURSIVE SortKeys(_)
SortKeys(ks) ==
    IF ks = {} THEN <<>>
    ELSE LET k == CHOOSE x \in ks : \A y \in ks : DigitValue(x[2]) <= DigitValue(y[2])
         IN  <<k>> \o SortKeys(ks \ {k})

\* any(keyword.lower() in title_lower for keyword in keywords), left to right:
\* "yes", "no", or "raise" when a keyword that is not a str is reached first
RECURSIVE AnyKeyword(_, _, _)
AnyKeyword(keywords, i, title_lower) ==
    IF i > Len(keywords) THEN "no"
    ELSE IF keywords[i].t # "str" THEN "raise"
    ELSE IF Contains(title_lower, Lower(keywords[i].v)) THEN "yes"
    ELSE AnyKeyword(keywords, i + 1, title_lower)

\* fault: return True after the first level that has keywords
LevelsPassFirstOnly(filters, level_keys, i, title_lower) ==
    IF i > Len(level_keys) THEN TRUE
    ELSE LET keywords == filters[level_keys[i]]
         IN  IF keywords.t # "list" \/ Len(keywords.v) = 0
             THEN TRUE
             ELSE AnyKeyword(keywords.v, 1, title_lower) = "yes"

RECURSIVE LevelsPass(_, _, _, _)
LevelsPass(filters, level_keys, i, title_lower) ==
    IF i > Len(level_keys) THEN TRUE
    ELSE LET keywords == filters[level_keys[i]]
         IN  IF keywords.t # "list"
             THEN LevelsPass(filters, level_keys, i + 1, title_lower)
             ELSE IF Len(keywords.v) = 0
             THEN LevelsPass(filters, level_keys, i + 1, title_lower)
             ELSE LET any == AnyKeyword(keywords.v, 1, title_lower)
                  IN  IF any = "yes"
                      THEN LevelsPass(filters, level_keys, i + 1, title_lower)
                      ELSE FALSE

\* the body of apply_filters once filters = self.url_filters.get(url);
\* filters is Optional[JSON value]
FilterPolicy(filters, title) ==
    IF filters = <<>> THEN TRUE
    ELSE IF ~Truthy(filters[1]) THEN TRUE
    ELSE IF filters[1].t # "dict" THEN TRUE
    ELSE LET d == filters[1].v
             level_keys == SortKeys({k \in DOMAIN d : IsLevelKey(k)})
         IN  IF level_keys = <<>> THEN TRUE
             ELSE LevelsPass(d, level_keys, 1, Lower(title))

apply_filters(url, title) ==
    FilterPolicy(IF url \in DOMAIN url_filters THEN <<url_filters[url]>> ELSE <<>>,
                 title)

(***************************************************************************)
(* extract_ad_details.  A page is the sequence of its <a href> elements in *)
(* document order; an anchor is [href, title, price] with title and price  *)
(* the Optional text of the two spans looked up inside it.                 *)
(***************************************************************************)
\* fault: 'free' in price, without lower()
PriceGateCaseSensitive(price, cur) ==
    StartsWith(price, cur) \/ Contains(price, <<"f", "r", "e", "e">>)

\* price.startswith(self.currency) or 'free' in price.lower()
PriceGate(price, cur) ==
    StartsWith(price, cur) \/ Contains(Lower(price), <<"f", "r", "e", "e">>)

PriceOk(price) == PriceGate(price, currency)

\* fault: a url is taken as processed only once an ad of it is kept
RECURSIVE ExtractFromAddsOnKeep(_, _, _, _)
ExtractFromAddsOnKeep(ad_links, i, processed_urls, source_url) ==
    IF i > Len(ad_links) THEN <<>>
    ELSE LET a == ad_links[i]
             href == a.href
         IN  IF href = <<>> \/ href[1] # ITEM_PREFIX
             THEN ExtractFromAddsOnKeep(ad_links, i + 1, processed_urls, source_url)
             ELSE LET full_url == FACEBOOK_BASE_URL \o BeforeQuery(href)
                  IN  IF full_url \in processed_urls
                      THEN ExtractFromAddsOnKeep(ad_links, i + 1, processed_urls, source_url)
                      ELSE IF /\ a.title # <<>>
                              /\ a.price # <<>>
                              /\ PriceOk(a.price[1])
                              /\ apply_filters(source_url, a.title[1])
                           THEN <<[ad_id |-> get_ads_hash(full_url),
                                   title |-> a.title[1],
                                   price |-> a.price[1],
                                   ad_url |-> full_url]>>
                                \o ExtractFromAddsOnKeep(ad_links, i + 1,
                                                          processed_urls \cup {full_url},
                                                          source_url)
                           ELSE ExtractFromAddsOnKeep(ad_links, i + 1, processed_urls,
                                                      source_url)

\* fault: a url is taken as processed only once its anchor has both spans
RECURSIVE ExtractFromAddsOnSpans(_, _, _, _)
ExtractFromAddsOnSpans(ad_links, i, processed_urls, source_url) ==
    IF i > Len(ad_links) THEN <<>>
    ELSE LET a == ad_links[i]
             href == a.href
         IN  IF href = <<>> \/ href[1] # ITEM_PREFIX
             THEN ExtractFromAddsOnSpans(ad_links, i + 1, processed_urls, source_url)
             ELSE LET full_url == FACEBOOK_BASE_URL \o BeforeQuery(href)
                  IN  IF full_url \in processed_urls \/ a.title = <<>> \/ a.price = <<>>
                      THEN ExtractFromAddsOnSpans(ad_links, i + 1, processed_urls, source_url)
                      ELSE LET rest == ExtractFromAddsOnSpans(ad_links, i + 1,
                                                              processed_urls \cup {full_url},
                                                              source_url)
                           IN  IF /\ PriceOk(a.price[1])
                                  /\ apply_filters(source_url, a.title[1])
                               THEN <<[ad_id |-> get_ads_hash(full_url),
                                       title |-> a.title[1],
                                       price |-> a.price[1],
                                       ad_url |-> full_url]>> \o rest
                               ELSE rest

RECURSIVE ExtractFrom(_, _, _, _)
ExtractFrom(ad_links, i, processed_urls, source_url) ==
    IF i > Len(ad_links) THEN <<>>
    ELSE LET a == ad_links[i]
             href == a.href
         IN  IF href = <<>> \/ href[1] # ITEM_PREFIX
             THEN ExtractFrom(ad_links, i + 1, processed_urls, source_url)
             ELSE LET full_url == FACEBOOK_BASE_URL \o BeforeQuery(href)
                  IN  IF full_url \in processed_urls
                      THEN ExtractFrom(ad_links, i + 1, processed_urls, source_url)
                      ELSE LET rest == ExtractFrom(ad_links, i + 1,
                                                   processed_urls \cup {full_url},
                                                   source_url)
                           IN  IF /\ a.title # <<>>
                                  /\ a.price # <<>>
                                  /\ PriceOk(a.price[1])
                                  /\ apply_filters(source_url, a.title[1])
                               THEN <<[ad_id |-> get_ads_hash(full_url),
                                       title |-> a.title[1],
                                       price |-> a.price[1],
                                       ad_url |-> full_url]>> \o rest
                               ELSE rest

\* fault: the filters are looked up under the site, not under the page fetched
extract_ad_details_unkeyed(content, source_url) ==
    ExtractFrom(content, 1, {}, <<FACEBOOK_BASE_URL>>)

extract_ad_details(content, source_url) == ExtractFrom(content, 1, {}, source_url)

(***************************************************************************)
(* The pages the Page Fetcher can return in the model.                     *)
(***************************************************************************)
TitleA == <<"A", "b">>
TitleC == <<"c">>
Price5 == <<"$", "5">>
PriceEuro == <<"E", "5">>
PriceFree == <<"F", "r", "e", "e">>

Anchors ==
    { [href |-> <<ITEM_PREFIX, "1">>, title |-> <<TitleA>>, price |-> <<Price5>>],
      [href |-> <<ITEM_PREFIX, "1", "?", "ref">>, title |-> <<TitleC>>, price |-> <<PriceFree>>],
      [href |-> <<ITEM_PREFIX, "2">>, title |-> <<TitleA>>, price |-> <<Price5>>],
      [href |-> <<ITEM_PREFIX, "2">>, title |-> <<>>, price |-> <<Price5>>],
      [href |-> <<ITEM_PREFIX, "2">>, title |-> <<TitleA>>, price |-> <<>>],
      [href |-> <<ITEM_PREFIX, "2">>, title |-> <<TitleA>>, price |-> <<PriceEuro>>],
      [href |-> <<"/groups/", "9">>, title |-> <<TitleA>>, price |-> <<Price5>>] }

Pages == UNION {[1..n -> Anchors] : n \in 0..MaxAnchors}

\* what extract_ad_details can return for each monitored page
AdsOf == [u \in Sources |-> {extract_ad_details(p, u) : p \in Pages}]

AllAds == UNION {{l[i] : i \in 1..Len(l)} : l \in UNION {AdsOf[u] : u \in DOMAIN AdsOf}}

(***************************************************************************)
(* Instants and their ISO-8601 text.                                       *)
(***************************************************************************)
isoformat(t) == [iso |-> t]
isoparse(s) == s.iso
\* text comparison a < b of two ISO-8601 UTC strings
TextLess(a, b) == a.iso < b.iso

(***************************************************************************)
(* The statements run against ad_changes.                                  *)
(***************************************************************************)
\* SELECT ad_id FROM ad_changes WHERE ad_id = ?
SqlSelectAd(rows, ad_id) == {r \in rows : r.ad_id = ad_id}

\* fault: a table without the UNIQUE constraint on ad_id
NoUniqueViolation(rows, ad_id) == FALSE

\* ad_id TEXT UNIQUE NOT NULL: the INSERT raises IntegrityError
UniqueViolation(rows, ad_id) == \E r \in rows : r.ad_id = ad_id

\* fault: the INSERT binds title and price in the wrong order
SqlInsertSwapped(rows, ad_url, ad_id, title, price, first_seen, last_checked) ==
    rows \cup {[url |-> ad_url, ad_id |-> ad_id, title |-> price, price |-> title,
                first_seen |-> first_seen, last_checked |-> last_checked]}

\* INSERT INTO ad_changes (url, ad_id, title, price, first_seen, last_checked)
SqlInsert(rows, ad_url, ad_id, title, price, first_seen, last_checked) ==
    rows \cup {[url |-> ad_url, ad_id |-> ad_id, title |-> title, price |-> price,
                first_seen |-> first_seen, last_checked |-> last_checked]}

\* fault: the UPDATE sets first_seen as well
SqlUpdateBothTimes(rows, now_iso, ad_id) ==
    {IF r.ad_id = ad_id THEN [r EXCEPT !.first_seen = now_iso, !.last_checked = now_iso]
     ELSE r : r \in rows}

\* fault: the UPDATE has no WHERE clause
SqlUpdateEveryRow(rows, now_iso, ad_id) ==
    {[r EXCEPT !.last_checked = now_iso] : r \in rows}

\* UPDATE ad_changes SET last_checked = ? WHERE ad_id = ?
SqlUpdateLastChecked(rows, now_iso, ad_id) ==
    {IF r.ad_id = ad_id THEN [r EXCEPT !.last_checked = now_iso] ELSE r : r \in rows}

\* fault: the DELETE takes the rows at the cutoff too
SqlDeleteOldInclusive(rows, cutoff_iso) == {r \in rows : TextLess(cutoff_iso, r.last_checked)}

\* DELETE FROM ad_changes WHERE last_checked < ?
SqlDeleteOld(rows, cutoff_iso) == {r \in rows : ~TextLess(r.last_checked, cutoff_iso)}

\* cursor.rowcount after the DELETE: the rows the WHERE clause took
SqlDeleteOldRowcount(rows, cutoff_iso) ==
    Cardinality({r \in rows : TextLess(r.last_checked, cutoff_iso)})

(***************************************************************************)
(* State.                                                                  *)
(***************************************************************************)
\* the callers of check_for_new_ads: the scheduler's job and a manual call
Triggers == {"scheduler", "manual"}
\* the Flask threads serving /rss
Readers == {"r1"}

VARIABLES
    urls_to_monitor, \* self.urls_to_monitor, as load_from_json set it
    clock,        \* the latest value datetime.now(timezone.utc) has returned
    job_lock,     \* self.job_lock is held
    driver,       \* self.driver is not None
    db,           \* the committed rows of ad_changes
    rss_items,    \* self.rss_feed.items
    created,      \* history: the first_seen of every row ever inserted, by ad_id
    pc,           \* where each call of check_for_new_ads stands
    conn,         \* its conn is an open connection
    idx,          \* position of url in self.urls_to_monitor
    attempted,    \* the urls its loop has taken up, in order
    ads,          \* ads of the current url
    k,            \* position of the current ad in ads
    existing,     \* existing_ad is not None
    now_utc,      \* now_utc of the current ad
    added,        \* added_ad_ids_this_run
    rpc,          \* where each feed request stands
    build,        \* how its generate_rss_feed_from_db ended
    call          \* a function called on its own: its arguments and its result

passVars == <<pc, conn, idx, attempted, ads, k, existing, now_utc, added>>
feedVars == <<rpc, build>>
progVars == <<urls_to_monitor, clock, job_lock, driver, db, rss_items, created, passVars,
              feedVars>>
vars == <<progVars, call>>

\* no function is called on its own
NoCall == [fn |-> "none"]

ProgramInit(urls) ==
    /\ urls_to_monitor = urls
    /\ clock = 0
    /\ job_lock = FALSE
    /\ driver = FALSE
    /\ db = {}
    /\ rss_items = <<>>
    /\ created = [id \in {ad.ad_id : ad \in AllAds} |-> {}]
    /\ pc = [t \in Triggers |-> "idle"]
    /\ conn = [t \in Triggers |-> FALSE]
    /\ idx = [t \in Triggers |-> 0]
    /\ attempted = [t \in Triggers |-> <<>>]
    /\ ads = [t \in Triggers |-> <<>>]
    /\ k = [t \in Triggers |-> 0]
    /\ existing = [t \in Triggers |-> FALSE]
    /\ now_utc = [t \in Triggers |-> 0]
    /\ added = [t \in Triggers |-> {}]
    /\ rpc = [r \in Readers |-> "idle"]
    /\ build = [r \in Readers |-> "none"]

InitWith(urls) == call = NoCall /\ ProgramInit(urls)

\* after __init__ with the two search pages configured
Init == InitWith(<<S1, S2>>)

\* datetime.now(timezone.utc): at or after the value returned before
Instants == {i * TickDays : i \in 0..MaxTicks}
Now == {c \in Instants : c >= clock}

\* a call is Running from the acquire of job_lock to its release
Running(t) == pc[t] \notin {"idle", "skipped", "returned"}

(***************************************************************************)
(* check_for_new_ads                                                       *)
(***************************************************************************)
\* fault: an acquire that never fails
TryAcquireAlways(held) == TRUE

\* self.job_lock.acquire(blocking=False)
TryAcquire(held) == ~held

Acquire(t) ==
    /\ pc[t] = "idle"
    /\ TryAcquire(job_lock)
    /\ job_lock' = TRUE
    /\ pc' = [pc EXCEPT ![t] = "connect"]
    /\ UNCHANGED <<call, urls_to_monitor, created, feedVars, clock, driver, db, rss_items, conn, idx, attempted,
                   ads, k, existing, now_utc, added>>

\* fault: the skipping call releases the lock it does not hold
SkipReleases(t) ==
    /\ pc[t] = "idle"
    /\ job_lock
    /\ job_lock' = FALSE
    /\ pc' = [pc EXCEPT ![t] = "skipped"]
    /\ UNCHANGED <<call, urls_to_monitor, created, feedVars, clock, driver, db, rss_items, conn, idx,
                   attempted, ads, k, existing, now_utc, added>>

\* "Ad check job is already running. Skipping this execution."
Skip(t) ==
    /\ pc[t] = "idle"
    /\ ~TryAcquire(job_lock)
    /\ pc' = [pc EXCEPT ![t] = "skipped"]
    /\ UNCHANGED <<call, urls_to_monitor, created, feedVars, clock, job_lock, driver, db, rss_items, conn, idx, attempted,
                   ads, k, existing, now_utc, added>>

\* fault: the loop over the urls is left after the first one
AfterSourceBreaks(i) == IF i >= 1 THEN "prune" ELSE "source"

\* where the for loop over self.urls_to_monitor goes after url number i
AfterSource(i) == IF i >= Len(urls_to_monitor) THEN "prune" ELSE "source"

\* fault: no return for a missing connection: the loop over the urls starts
ConnectFallsThrough(t) ==
    /\ pc[t] = "connect"
    /\ \/ conn' = [conn EXCEPT ![t] = TRUE]
       \/ UNCHANGED conn
    /\ added' = [added EXCEPT ![t] = {}]
    /\ idx' = [idx EXCEPT ![t] = 1]
    /\ pc' = [pc EXCEPT ![t] = IF 0 >= Len(urls_to_monitor) THEN "prune" ELSE "source"]
    /\ UNCHANGED <<call, urls_to_monitor, created, feedVars, clock, job_lock, driver, db, rss_items,
                   attempted, ads, k, existing, now_utc>>

\* fault: the return for a missing connection leaves without the release
ConnectLeaks(t) ==
    /\ pc[t] = "connect"
    /\ \/ /\ conn' = [conn EXCEPT ![t] = TRUE]
          /\ added' = [added EXCEPT ![t] = {}]
          /\ idx' = [idx EXCEPT ![t] = 1]
          /\ pc' = [pc EXCEPT ![t] = AfterSource(0)]
       \/ /\ pc' = [pc EXCEPT ![t] = "returned"]
          /\ UNCHANGED <<conn, added, idx>>
    /\ UNCHANGED <<call, urls_to_monitor, created, feedVars, clock, job_lock, driver, db, rss_items,
                   attempted, ads, k, existing, now_utc>>

\* conn = self.get_db_connection(); cursor; added_ad_ids_this_run = set()
Connect(t) ==
    /\ pc[t] = "connect"
    /\ \/ /\ conn' = [conn EXCEPT ![t] = TRUE]
          /\ added' = [added EXCEPT ![t] = {}]
          /\ idx' = [idx EXCEPT ![t] = 1]
          /\ pc' = [pc EXCEPT ![t] = AfterSource(0)]
       \/ /\ pc' = [pc EXCEPT ![t] = "finally"]
          /\ UNCHANGED <<conn, added, idx>>
    /\ UNCHANGED <<call, urls_to_monitor, created, feedVars, clock, job_lock, driver, db, rss_items, attempted, ads, k,
                   existing, now_utc>>

\* fault: the error of a url leaves the loop and the pass ends
NextSourceEscapes(t) ==
    /\ idx' = [idx EXCEPT ![t] = idx[t] + 1]
    /\ pc' = [pc EXCEPT ![t] = "finally"]
    /\ ads' = [ads EXCEPT ![t] = <<>>]
    /\ k' = [k EXCEPT ![t] = 0]
    /\ existing' = [existing EXCEPT ![t] = FALSE]
    /\ now_utc' = [now_utc EXCEPT ![t] = 0]

\* the loop goes on to the next url (continue, or the except branch and finally)
NextSource(t) ==
    /\ idx' = [idx EXCEPT ![t] = idx[t] + 1]
    /\ pc' = [pc EXCEPT ![t] = AfterSource(idx[t])]
    /\ ads' = [ads EXCEPT ![t] = <<>>]
    /\ k' = [k EXCEPT ![t] = 0]
    /\ existing' = [existing EXCEPT ![t] = FALSE]
    /\ now_utc' = [now_utc EXCEPT ![t] = 0]

\* the loop over ads goes on to the next ad, or the url is done
NextAd(t) ==
    /\ existing' = [existing EXCEPT ![t] = FALSE]
    /\ now_utc' = [now_utc EXCEPT ![t] = 0]
    /\ IF k[t] < Len(ads[t])
       THEN /\ k' = [k EXCEPT ![t] = k[t] + 1]
            /\ pc' = [pc EXCEPT ![t] = "select"]
            /\ UNCHANGED <<idx, ads>>
       ELSE /\ idx' = [idx EXCEPT ![t] = idx[t] + 1]
            /\ pc' = [pc EXCEPT ![t] = AfterSource(idx[t])]
            /\ ads' = [ads EXCEPT ![t] = <<>>]
            /\ k' = [k EXCEPT ![t] = 0]

\* for url in self.urls_to_monitor: self.init_selenium()
\* (init_selenium sets self.driver or raises, so `if not self.driver` never holds)
StartSource(t) ==
    /\ pc[t] = "source"
    /\ attempted' = [attempted EXCEPT ![t] = Append(@, urls_to_monitor[idx[t]])]
    /\ \/ /\ driver' = TRUE
          /\ pc' = [pc EXCEPT ![t] = "fetch"]
          /\ UNCHANGED <<idx, ads, k, existing, now_utc>>
       \/ /\ driver' = FALSE
          /\ NextSource(t)
    /\ UNCHANGED <<call, urls_to_monitor, created, feedVars, clock, job_lock, db, rss_items, conn, added>>

\* fault: the page is taken and the driver is left open
FetchKeepsDriver(t) ==
    /\ pc[t] = "fetch"
    /\ driver' = driver
    /\ \/ NextSource(t)
       \/ \E found \in AdsOf[urls_to_monitor[idx[t]]] :
            IF found = <<>>
            THEN NextSource(t)
            ELSE /\ ads' = [ads EXCEPT ![t] = found]
                 /\ k' = [k EXCEPT ![t] = 1]
                 /\ pc' = [pc EXCEPT ![t] = "select"]
                 /\ UNCHANGED <<idx, existing, now_utc>>
    /\ UNCHANGED <<call, urls_to_monitor, created, feedVars, clock, job_lock, db, rss_items, conn, attempted, added>>

\* get_page_content, quit_selenium, extract_ad_details
Fetch(t) ==
    /\ pc[t] = "fetch"
    /\ driver' = FALSE
    /\ \/ NextSource(t)
       \/ \E found \in AdsOf[urls_to_monitor[idx[t]]] :
            IF found = <<>>
            THEN NextSource(t)
            ELSE /\ ads' = [ads EXCEPT ![t] = found]
                 /\ k' = [k EXCEPT ![t] = 1]
                 /\ pc' = [pc EXCEPT ![t] = "select"]
                 /\ UNCHANGED <<idx, existing, now_utc>>
    /\ UNCHANGED <<call, urls_to_monitor, created, feedVars, clock, job_lock, db, rss_items, conn, attempted, added>>

\* for ad in ads: the added_ad_ids_this_run test, the SELECT, now_utc
Select(t) ==
    /\ pc[t] = "select"
    /\ LET ad == ads[t][k[t]]
       IN  \/ /\ ad.ad_id \in added[t]
              /\ NextAd(t)
              /\ UNCHANGED clock
           \/ /\ ad.ad_id \notin added[t]
              /\ existing' = [existing EXCEPT ![t] = SqlSelectAd(db, ad.ad_id) # {}]
              /\ \E c \in Now : clock' = c /\ now_utc' = [now_utc EXCEPT ![t] = c]
              /\ pc' = [pc EXCEPT ![t] = "write"]
              /\ UNCHANGED <<idx, ads, k>>
           \/ /\ ad.ad_id \notin added[t]
              /\ NextSource(t)
              /\ UNCHANGED clock
    /\ UNCHANGED <<call, urls_to_monitor, created, feedVars, job_lock, driver, db, rss_items, conn,
                   attempted, added>>

\* datetime.astimezone keeps the instant
local_time(dt) == dt

\* PyRSS2Gen.RSSItem(title, link, description, guid, pubDate)
RSSItem(title, price, link, guid, pubDate) ==
    [title |-> title \o <<" - ">> \o price,
     link |-> link,
     description |-> <<"Price: ">> \o price \o <<" | Title: ">> \o title,
     guid |-> guid,
     pubDate |-> pubDate]

\* existing_ad is None: the INSERT and its commit succeed
InsertNew(t) ==
    /\ pc[t] = "write"
    /\ ~existing[t]
    /\ LET ad == ads[t][k[t]]
           now_iso == isoformat(now_utc[t])
       IN  /\ ~UniqueViolation(db, ad.ad_id)
           /\ db' = SqlInsert(db, ad.ad_url, ad.ad_id, ad.title, ad.price, now_iso, now_iso)
           /\ created' = [created EXCEPT ![ad.ad_id] = @ \cup {now_utc[t]}]
    /\ pc' = [pc EXCEPT ![t] = "publish"]
    /\ UNCHANGED <<call, urls_to_monitor, feedVars, clock, job_lock, driver, rss_items, conn, idx,
                   attempted, ads, k, existing, now_utc, added>>

\* self.rss_feed.items.insert(0, new_item); added_ad_ids_this_run.add(ad_id)
Publish(t) ==
    /\ pc[t] = "publish"
    /\ LET ad == ads[t][k[t]]
       IN  /\ rss_items' = <<RSSItem(ad.title, ad.price, ad.ad_url, ad.ad_id,
                                     local_time(now_utc[t]))>> \o rss_items
           /\ added' = [added EXCEPT ![t] = @ \cup {ad.ad_id}]
    /\ NextAd(t)
    /\ UNCHANGED <<call, urls_to_monitor, created, feedVars, clock, job_lock, driver, db, conn, attempted>>

\* except sqlite3.IntegrityError: UPDATE last_checked and commit.  An error
\* of the UPDATE or of its commit leaves the except clause and reaches the
\* handler of the url.
InsertRace(t) ==
    /\ pc[t] = "write"
    /\ ~existing[t]
    /\ LET ad == ads[t][k[t]]
       IN  /\ UniqueViolation(db, ad.ad_id)
           /\ \/ /\ db' = SqlUpdateLastChecked(db, isoformat(now_utc[t]), ad.ad_id)
                 /\ NextAd(t)
              \/ /\ NextSource(t)
                 /\ UNCHANGED db
    /\ UNCHANGED <<call, urls_to_monitor, created, feedVars, clock, job_lock, driver, rss_items, conn,
                   attempted, added>>

\* fault: the rollback takes the rows the pass has inserted before with it
InsertFailsUndoesAll(t) ==
    /\ pc[t] = "write"
    /\ ~existing[t]
    /\ ~UniqueViolation(db, ads[t][k[t]].ad_id)
    /\ db' = {r \in db : r.ad_id \notin added[t]}
    /\ NextAd(t)
    /\ UNCHANGED <<call, urls_to_monitor, created, feedVars, clock, job_lock, driver, rss_items,
                   conn, attempted, added>>

\* fault: the item goes into the feed though the INSERT failed
InsertFailsPublishes(t) ==
    /\ pc[t] = "write"
    /\ ~existing[t]
    /\ ~UniqueViolation(db, ads[t][k[t]].ad_id)
    /\ pc' = [pc EXCEPT ![t] = "publish"]
    /\ UNCHANGED <<call, urls_to_monitor, created, feedVars, clock, job_lock, driver, db, rss_items,
                   conn, idx, attempted, ads, k, existing, now_utc, added>>

\* except sqlite3.Error (the INSERT or its commit failed): conn.rollback()
InsertFails(t) ==
    /\ pc[t] = "write"
    /\ ~existing[t]
    /\ ~UniqueViolation(db, ads[t][k[t]].ad_id)
    /\ NextAd(t)
    /\ UNCHANGED <<call, urls_to_monitor, created, feedVars, clock, job_lock, driver, db, rss_items, conn,
                   attempted, added>>

\* fault: a listing that is only touched is taken as handled by the pass too
TouchExistingMarksHandled(t) ==
    /\ pc[t] = "write"
    /\ existing[t]
    /\ db' = SqlUpdateLastChecked(db, isoformat(now_utc[t]), ads[t][k[t]].ad_id)
    /\ added' = [added EXCEPT ![t] = @ \cup {ads[t][k[t]].ad_id}]
    /\ NextAd(t)
    /\ UNCHANGED <<call, urls_to_monitor, created, feedVars, clock, job_lock, driver, rss_items, conn,
                   attempted>>

\* existing_ad is not None: UPDATE last_checked and commit
TouchExisting(t) ==
    /\ pc[t] = "write"
    /\ existing[t]
    /\ db' = SqlUpdateLastChecked(db, isoformat(now_utc[t]), ads[t][k[t]].ad_id)
    /\ NextAd(t)
    /\ UNCHANGED <<call, urls_to_monitor, created, feedVars, clock, job_lock, driver, rss_items, conn,
                   attempted, added>>

\* the UPDATE or its commit raises: no try around them, so the handler of the
\* url takes it and the rest of the url's ads is left
TouchFails(t) ==
    /\ pc[t] = "write"
    /\ existing[t]
    /\ NextSource(t)
    /\ UNCHANGED <<call, urls_to_monitor, created, feedVars, clock, job_lock, driver, db, rss_items, conn,
                   attempted, added>>

\* fault: the cutoff is now, with no timedelta(days=days_to_keep) taken off
PruneNoWindow(t) ==
    /\ pc[t] = "prune"
    /\ \/ \E c \in Now :
            /\ clock' = c
            /\ db' = SqlDeleteOld(db, isoformat(c))
       \/ UNCHANGED <<clock, db>>
    /\ pc' = [pc EXCEPT ![t] = "finally"]
    /\ UNCHANGED <<call, urls_to_monitor, created, feedVars, job_lock, driver, rss_items, conn, idx, attempted,
                   ads, k, existing, now_utc, added>>

\* self.prune_old_ads(conn): the DELETE and its commit, or an sqlite3.Error
\* and the rollback.  The except clauses of check_for_new_ads, which only an
\* error of that rollback reaches, change no state either.
Prune(t) ==
    /\ pc[t] = "prune"
    /\ \/ \E c \in Now :
            /\ clock' = c
            /\ db' = SqlDeleteOld(db, isoformat(c - days_to_keep))
       \/ UNCHANGED <<clock, db>>
    /\ pc' = [pc EXCEPT ![t] = "finally"]
    /\ UNCHANGED <<call, urls_to_monitor, created, feedVars, job_lock, driver, rss_items, conn, idx, attempted,
                   ads, k, existing, now_utc, added>>

\* finally: quit_selenium, conn.close, self.job_lock.release()
Finally(t) ==
    /\ pc[t] = "finally"
    /\ driver' = FALSE
    /\ conn' = [conn EXCEPT ![t] = FALSE]
    /\ job_lock' = FALSE
    /\ pc' = [pc EXCEPT ![t] = "returned"]
    /\ idx' = [idx EXCEPT ![t] = 0]
    /\ attempted' = [attempted EXCEPT ![t] = <<>>]
    /\ added' = [added EXCEPT ![t] = {}]
    /\ UNCHANGED <<call, urls_to_monitor, created, feedVars, clock, db, rss_items, ads, k, existing, now_utc>>

\* the caller has the call's end
Return(t) ==
    /\ pc[t] \in {"skipped", "returned"}
    /\ pc' = [pc EXCEPT ![t] = "idle"]
    /\ UNCHANGED <<call, urls_to_monitor, created, feedVars, clock, job_lock, driver, db, rss_items, conn, idx,
                   attempted, ads, k, existing, now_utc, added>>

(***************************************************************************)
(* The environment: the writer the IntegrityError branch is for ("ad added *)
(* between SELECT and INSERT"): another process on the same database file  *)
(* inserts the ad the pass has just looked up, stamped with its own        *)
(* reading of the clock.                                                   *)
(***************************************************************************)
RacingInsert ==
    /\ \E t \in Triggers :
         /\ pc[t] = "write"
         /\ ~existing[t]
         /\ \E ad \in AllAds, c \in Now :
              /\ ad.ad_id = ads[t][k[t]].ad_id
              /\ ~UniqueViolation(db, ad.ad_id)
              /\ clock' = c
              /\ db' = SqlInsert(db, ad.ad_url, ad.ad_id, ad.title, ad.price,
                                 isoformat(c), isoformat(c))
              /\ created' = [created EXCEPT ![ad.ad_id] = @ \cup {c}]
    /\ UNCHANGED <<call, urls_to_monitor, job_lock, driver, rss_items, passVars, feedVars>>

(***************************************************************************)
(* rss and generate_rss_feed_from_db                                       *)
(***************************************************************************)
\* fault: the window is taken on first_seen
SqlRecentByFirstSeen(rows, start_iso) ==
    LET hit == {r \in rows : ~TextLess(r.first_seen, start_iso)}
        n == Cardinality(hit)
        sorted == {s \in [1..n -> hit] :
                     /\ \A i, j \in 1..n : i # j => s[i] # s[j]
                     /\ \A i \in 1..(n - 1) :
                          ~TextLess(s[i].last_checked, s[i + 1].last_checked)}
    IN  {SubSeq(s, 1, IF n < feed_limit THEN n ELSE feed_limit) : s \in sorted}

\* SELECT ... WHERE last_checked >= ? ORDER BY last_checked DESC LIMIT 100:
\* the possible results; SQL leaves the order of equal last_checked open
\* fault: ORDER BY last_checked without DESC
SqlRecentAscending(rows, start_iso, limit) ==
    LET hit == {r \in rows : ~TextLess(r.last_checked, start_iso)}
        n == Cardinality(hit)
        sorted == {s \in [1..n -> hit] :
                     /\ \A i, j \in 1..n : i # j => s[i] # s[j]
                     /\ \A i \in 1..(n - 1) :
                          ~TextLess(s[i + 1].last_checked, s[i].last_checked)}
    IN  {SubSeq(s, 1, IF n < limit THEN n ELSE limit) : s \in sorted}

SqlRecentLimit(rows, start_iso, limit) ==
    LET hit == {r \in rows : ~TextLess(r.last_checked, start_iso)}
        n == Cardinality(hit)
        sorted == {s \in [1..n -> hit] :
                     /\ \A i, j \in 1..n : i # j => s[i] # s[j]
                     /\ \A i \in 1..(n - 1) :
                          ~TextLess(s[i].last_checked, s[i + 1].last_checked)}
    IN  {SubSeq(s, 1, IF n < limit THEN n ELSE limit) : s \in sorted}

SqlRecent(rows, start_iso) == SqlRecentLimit(rows, start_iso, feed_limit)

\* for change in changes: new_items.append(RSSItem(...))
ItemsOf(changes) ==
    [i \in 1..Len(changes) |->
        RSSItem(changes[i].title, changes[i].price, changes[i].url, changes[i].ad_id,
                local_time(isoparse(changes[i].last_checked)))]

\* fault: the feed request waits for the run guard
RssGenerateGuarded(r) ==
    /\ rpc[r] = "idle"
    /\ ~job_lock
    /\ \E c \in Now : \E changes \in SqlRecent(db, isoformat(c - feed_days)) :
            /\ clock' = c
            /\ rss_items' = ItemsOf(changes)
            /\ build' = [build EXCEPT ![r] = "ok"]
    /\ rpc' = [rpc EXCEPT ![r] = "to_xml"]
    /\ UNCHANGED <<call, urls_to_monitor, created, job_lock, driver, db, passVars>>

\* rss calls generate_rss_feed_from_db: no connection and the items are
\* kept; or a DatabaseError and they are cleared; or the SELECT, new_items and
\* self.rss_feed.items = new_items.  The read and the assignment are one
\* step: what another thread does between them is either overwritten by the
\* assignment (an insert into the old list) or independent of it (a commit).
RssGenerate(r) ==
    /\ rpc[r] = "idle"
    /\ \/ /\ build' = [build EXCEPT ![r] = "noconn"]
          /\ UNCHANGED <<clock, rss_items>>
       \/ /\ build' = [build EXCEPT ![r] = "dberror"]
          /\ rss_items' = <<>>
          /\ UNCHANGED clock
       \/ \E c \in Now : \E changes \in SqlRecent(db, isoformat(c - feed_days)) :
            /\ clock' = c
            /\ rss_items' = ItemsOf(changes)
            /\ build' = [build EXCEPT ![r] = "ok"]
    /\ rpc' = [rpc EXCEPT ![r] = "to_xml"]
    /\ UNCHANGED <<call, urls_to_monitor, created, job_lock, driver, db, passVars>>

\* rss_xml = self.rss_feed.to_xml() serializes self.rss_feed.items as they
\* are now, and the Response (or the 500 response) goes to the client
RssToXml(r) ==
    /\ rpc[r] = "to_xml"
    /\ rpc' = [rpc EXCEPT ![r] = "idle"]
    /\ build' = [build EXCEPT ![r] = "none"]
    /\ UNCHANGED <<call, urls_to_monitor, created, clock, job_lock, driver, db, rss_items, passVars>>

(***************************************************************************)
(* Functions called on their own, on arguments drawn from the sets below.  *)
(***************************************************************************)
Level1 == <<"level", "1">>
Level2 == <<"level", "2">>
Notes == <<"notes", "1">>
\* a JSON object with the key, or without it
Entry(key, values) == {<<>>} \cup {key :> v : v \in values}

\* policies that map level names to lists of str
WellFormedPolicies ==
    {JDict(e1 @@ e2 @@ e3) :
        e1 \in Entry(Level1, {JList(<<>>), JList(<<JStr(<<"a">>), JStr(<<"b">>)>>),
                              JList(<<JStr(<<"B">>)>>)}),
        e2 \in Entry(Level2, {JList(<<>>), JList(<<JStr(<<"c">>)>>)}),
        e3 \in Entry(Notes, {JList(<<JStr(<<"z">>)>>)})}

\* policies that are no mapping, or have a level that is no list, or a
\* keyword that is no str
MalformedPolicies ==
    {JList(<<JStr(<<"a">>)>>), JStr(<<"a">>), JInt(5), JInt(0)}
    \cup {JDict(e1 @@ e2) :
            e1 \in Entry(Level1, {JStr(<<"a">>), JInt(5), JDict(<<>>),
                                  JList(<<JInt(5)>>),
                                  JList(<<JStr(<<"a">>), JInt(5)>>),
                                  JList(<<JInt(5), JStr(<<"a">>)>>)}) \ {<<>>},
            e2 \in Entry(Level2, {JList(<<JStr(<<"c">>)>>)})}

Titles ==
    {<<"x", "y", "z">>, <<"a", " ", "c">>, <<"a">>, <<"c">>, <<"A", " ", "C">>, <<"b">>}

\* self.url_filters.get(url) and a title
FilterCalls ==
    [fn : {"apply_filters"},
     filters : {<<>>} \cup {<<f>> : f \in WellFormedPolicies \cup MalformedPolicies},
     title : Titles,
     ret : {<<>>}]

\* a row of ad_changes for listing n
SampleRow(n, first_seen, last_checked) ==
    [url |-> FACEBOOK_BASE_URL \o <<ITEM_PREFIX, n>>,
     ad_id |-> get_ads_hash(FACEBOOK_BASE_URL \o <<ITEM_PREFIX, n>>),
     title |-> TitleA, price |-> Price5,
     first_seen |-> isoformat(first_seen), last_checked |-> isoformat(last_checked)]

SampleIds == {"1", "2", "3"}

\* the tables with at most one row for each listing, last checked on one of
\* the days
Tables(days) ==
    {{SampleRow(n, 0, f[n]) : n \in {x \in SampleIds : f[x] # -1}} :
        f \in [SampleIds -> days \cup {-1}]}

\* prune_old_ads on a table, at days 14 and 28: rows older than the cutoff,
\* at the cutoff and younger
PruneCalls ==
    [fn : {"prune_old_ads"},
     rows : Tables({0, 13, 14, 15}),
     now : {14, 28},
     ret : {<<>>}]

\* the SELECT of generate_rss_feed_from_db and the loop over its rows, on a
\* table at day 14: rows before the window, at its start and inside it
BuildCalls ==
    [fn : {"generate_rss_feed_from_db"},
     rows : Tables({0, 7, 10}),
     now : {14},
     limit : (1..MaxLimit) \cup {feed_limit},
     ret : {<<>>}]

\* extract_ad_details on a fetched page of a monitored url
ExtractCalls ==
    [fn : {"extract_ad_details"},
     content : Pages,
     source_url : Sources,
     ret : {<<>>}]

\* the price test of extract_ad_details under a configured currency
GateCalls ==
    [fn : {"price_gate"},
     price : {<<"$", "5", "0">>, <<"EUR", "5", "0">>, <<"5", "0", "$">>, <<"5", "0">>,
              PriceFree, <<"F", "R", "E", "E">>, <<"f", "r", "e", "e", " ", "5">>,
              <<"f", "r", "e">>},
     currency : {<<"$">>, <<"EUR">>},
     ret : {<<>>}]

Calls == FilterCalls \cup PruneCalls \cup BuildCalls \cup ExtractCalls \cup GateCalls

\* apply_filters returns
CallApplyFilters ==
    /\ call.fn = "apply_filters"
    /\ call.ret = <<>>
    /\ call' = [call EXCEPT !.ret = <<FilterPolicy(call.filters, call.title)>>]
    /\ UNCHANGED progVars

(***************************************************************************)
(* Specifications.  Spec is the whole program.  The others leave callers   *)
(* out: GuardSpec has both callers of check_for_new_ads, one configured    *)
(* url and no feed request; PassSpec has the scheduler's calls alone,      *)
(* which by the run guard is every ingestion there is to see, over two     *)
(* urls; FeedSpec has the scheduler's calls over one url and the feed      *)
(* requests; CallSpec has one method called on its own, on arguments       *)
(* drawn from Calls.                                                       *)
(***************************************************************************)
PassStep(t) ==
    \/ Connect(t) \/ StartSource(t) \/ Fetch(t) \/ Select(t)
    \/ InsertNew(t) \/ Publish(t) \/ InsertRace(t) \/ InsertFails(t)
    \/ TouchExisting(t) \/ TouchFails(t) \/ Prune(t) \/ Finally(t)

FeedStep(r) == RssGenerate(r) \/ RssToXml(r)

Next ==
    \/ \E t \in Triggers : Acquire(t) \/ Skip(t) \/ PassStep(t) \/ Return(t)
    \/ \E r \in Readers : FeedStep(r)
    \/ RacingInsert

Spec == Init /\ [][Next]_vars

GuardNext ==
    \/ \E t \in Triggers : Acquire(t) \/ Skip(t) \/ PassStep(t) \/ Return(t)
    \/ RacingInsert

\* after __init__ with the filtered search page alone configured
GuardInit == InitWith(<<S1>>)

GuardSpec == GuardInit /\ [][GuardNext]_vars

PassNext ==
    \/ \E t \in {"scheduler"} : Acquire(t) \/ PassStep(t) \/ Return(t)
    \/ RacingInsert

PassSpec == Init /\ [][PassNext]_vars

FeedNext ==
    \/ \E t \in {"scheduler"} : Acquire(t) \/ PassStep(t) \/ Return(t)
    \/ \E r \in Readers : FeedStep(r)
    \/ RacingInsert

\* after __init__ with the two search pages configured in either order
OrderInit == \E urls \in {<<S1, S2>>, <<S2, S1>>} : InitWith(urls)

OrderSpec == OrderInit /\ [][PassNext]_vars

\* after __init__ with the unfiltered search page alone configured
FeedInit == InitWith(<<S2>>)

FeedSpec == FeedInit /\ [][FeedNext]_vars

\* prune_old_ads returns: the table after the DELETE and its commit with the
\* deleted_count it logs, or the table as it was after an sqlite3.Error
CallPrune ==
    /\ call.fn = "prune_old_ads"
    /\ call.ret = <<>>
    /\ LET cutoff_date == call.now - days_to_keep
       IN  \/ call' = [call EXCEPT !.ret =
                         <<[rows |-> SqlDeleteOld(call.rows, isoformat(cutoff_date)),
                            deleted_count |->
                                <<SqlDeleteOldRowcount(call.rows, isoformat(cutoff_date))>>]>>]
           \/ call' = [call EXCEPT !.ret = <<[rows |-> call.rows, deleted_count |-> <<>>]>>]
    /\ UNCHANGED progVars

\* generate_rss_feed_from_db has new_items
CallBuild ==
    /\ call.fn = "generate_rss_feed_from_db"
    /\ call.ret = <<>>
    /\ \E changes \in SqlRecentLimit(call.rows, isoformat(call.now - feed_days), call.limit) :
          call' = [call EXCEPT !.ret = <<ItemsOf(changes)>>]
    /\ UNCHANGED progVars

\* extract_ad_details returns ads_found
CallExtract ==
    /\ call.fn = "extract_ad_details"
    /\ call.ret = <<>>
    /\ call' = [call EXCEPT !.ret = <<extract_ad_details(call.content, call.source_url)>>]
    /\ UNCHANGED progVars

\* the price test of extract_ad_details has its value
CallGate ==
    /\ call.fn = "price_gate"
    /\ call.ret = <<>>
    /\ call' = [call EXCEPT !.ret = <<PriceGate(call.price, call.currency)>>]
    /\ UNCHANGED progVars

CallNext == CallApplyFilters \/ CallPrune \/ CallBuild \/ CallExtract \/ CallGate

\* the program as __init__ leaves it and one function about to be called
CallInit ==
    /\ call \in Calls
    /\ \E urls \in {<<S1, S2>>} : ProgramInit(urls)

CallSpec == CallInit /\ [][CallNext]_vars

\* the scheduler's thread and APScheduler's pool run every call they have
\* started: each step of a pass is taken in the end
FairGuardSpec == GuardSpec /\ \A t \in Triggers : WF_vars(PassStep(t))

(***************************************************************************)
(* Properties.                                                             *)
(***************************************************************************)
RunningSet == {t \in Triggers : Running(t)}
Ids == DOMAIN created
\* the ad the pass of t is at
CurrentAd(t) == ads[t][k[t]]

\* C1: at most one call of check_for_new_ads is Running at any time, and a
\* call that arrives while another is Running ends at once as skipped
\* (one that arrives while none is Running starts its pass)
C1_GuardExclusive ==
    /\ [](Cardinality(RunningSet) <= 1)
    /\ [][\A t \in Triggers :
            (pc[t] = "idle" /\ pc'[t] # "idle") =>
                IF RunningSet # {} THEN pc'[t] = "skipped" ELSE pc'[t] = "connect"]_vars

\* a call has been skipped while the other call is in the middle of its pass
C1_Witness ==
    \E t, u \in Triggers : t # u /\ pc[t] = "select" /\ pc[u] = "skipped"

\* C2: the lock is held exactly while a call is Running, so that a call that
\* arrives after a pass has ended acquires it; and every call that is Running
\* comes to its end, whatever path it leaves by
C2_GuardReleased ==
    /\ [](job_lock <=> RunningSet # {})
    /\ \A t \in Triggers : Running(t) ~> pc[t] = "returned"

\* a pass that wrote to the table has ended and the lock is free
C2_Witness ==
    \E t \in Triggers : pc[t] = "returned" /\ ~job_lock /\ db # {} /\ RunningSet = {}

\* C3: a call that fails to acquire the lock changes nothing: the table, the
\* feed's items, the browser session and the lock stay as they are and no
\* connection is opened
C3_SkipNoEffect ==
    [][\A t \in Triggers :
         (pc[t] = "idle" /\ pc'[t] = "skipped") =>
             /\ job_lock /\ job_lock'
             /\ UNCHANGED <<db, rss_items, driver, conn, created, clock>>
             /\ \A u \in Triggers : u # t => pc'[u] = pc[u]]_vars

\* a call has been skipped while the pass of the other holds the browser
\* session and a connection, with a row in the table
C3_Witness ==
    \E t, u \in Triggers :
        pc[u] = "skipped" /\ pc[t] = "fetch" /\ driver /\ conn[t] /\ db # {}

\* what a pass's write to the table may do to the rows of the ad it is at
WriteOutcome(t) ==
    LET id == CurrentAd(t).ad_id
        now_iso == isoformat(now_utc[t])
        old == SqlSelectAd(db, id)
        new == SqlSelectAd(db', id)
    IN  IF old = {}
        THEN \E r \in new :
                new = {r} /\ r.first_seen = now_iso /\ r.last_checked = now_iso
        ELSE \E r \in old :
                old = {r} /\ new = {[r EXCEPT !.last_checked = now_iso]}

\* C4: a pass that writes for a listing without a row leaves one row whose
\* first_seen and last_checked are that pass's timestamp; a pass that writes
\* for a listing with a row leaves that one row, its first_seen as it was
\* and its last_checked that pass's timestamp
C4_IdempotentResighting ==
    [][\A t \in Triggers :
         (pc[t] = "write" /\ pc'[t] # "write" /\ db' # db) => WriteOutcome(t)]_vars

\* some listing has one row, first seen by one pass and last checked by a
\* later one, and that later pass has ended
C4_Witness ==
    \E r \in db :
        /\ SqlSelectAd(db, r.ad_id) = {r}
        /\ TextLess(r.first_seen, r.last_checked)
        /\ created[r.ad_id] = {isoparse(r.first_seen)}
        /\ RunningSet = {}

\* C5: every row has first_seen <= last_checked, in every reachable state
C5_FirstSeenBeforeLastChecked ==
    \A r \in db : ~TextLess(r.last_checked, r.first_seen)

\* C6 as stated: over all passes and prunes a listing's row is created once
C6_CreatedOnce ==
    \A id \in Ids : Cardinality(created[id]) <= 1

\* C6: a listing has at most one row; as long as it has a row, no step
\* changes the row's first_seen; and a row goes away in prune_old_ads only
C6_CreatedOnceWhileKept ==
    /\ [](\A r1, r2 \in db : r1.ad_id = r2.ad_id => r1 = r2)
    /\ [][\A r1 \in db : \A r2 \in db' :
            r1.ad_id = r2.ad_id => r2.first_seen = r1.first_seen]_vars
    /\ [][(\E r \in db : SqlSelectAd(db', r.ad_id) = {}) =>
            \E t \in Triggers : pc[t] = "prune"]_vars

\* a listing's row was pruned and a later pass has made a new one
C6_Witness ==
    \E r \in db :
        /\ Cardinality(created[r.ad_id]) = 2
        /\ \A c \in created[r.ad_id] : c <= isoparse(r.first_seen)

\* the rows and the feed items of a listing the pass of t has added
AddedRows(t, id) == SqlSelectAd(db, id)
AddedItems(t, id) ==
    {i \in 1..Len(rss_items) :
        /\ rss_items[i].guid = id
        /\ \E r \in AddedRows(t, id) : rss_items[i].pubDate = isoparse(r.first_seen)}
InLoop(t) == pc[t] \in {"source", "fetch", "select", "write", "publish"}

C8_ErrorSkipsOneListing ==
    [][\A t \in Triggers :
         (/\ pc[t] \in {"select", "write"}
          /\ k[t] < Len(ads[t])
          /\ pc'[t] \notin {"write", "publish"}
          /\ pc'[t] # pc[t] \/ k'[t] # k[t])
         => (pc'[t] = "select" /\ k'[t] = k[t] + 1 /\ ads'[t] = ads[t])]_vars

\* C9: a pass with a connection attempts the configured urls one by one in
\* their order, each once, and has attempted them all when it comes to the
\* prune
C9_EverySourceOnce ==
    \A t \in Triggers :
        /\ Len(attempted[t]) <= Len(urls_to_monitor)
        /\ attempted[t] = SubSeq(urls_to_monitor, 1, Len(attempted[t]))
        /\ pc[t] = "source" => Len(attempted[t]) = idx[t] - 1
        /\ pc[t] \in {"fetch", "select", "write", "publish"} => Len(attempted[t]) = idx[t]
        /\ (pc[t] = "prune" \/ (pc[t] = "finally" /\ conn[t])) =>
              attempted[t] = urls_to_monitor

\* a pass is at the prune with both urls attempted and nothing got from either
C9_Witness ==
    \E t \in Triggers :
        /\ pc[t] = "prune"
        /\ Len(attempted[t]) = 2
        /\ db = {}
        /\ rss_items = <<>>

\* C10: a feed whose build had no connection or a database error is
\* serialized with no items
C10_FailedBuildServesNothing ==
    \A r \in Readers :
        (rpc[r] = "to_xml" /\ build[r] \in {"noconn", "dberror"}) => rss_items = <<>>

\* the rows a build that reads the clock as c has in its window
InWindow(c) == {row \in db : ~TextLess(row.last_checked, isoformat(c - feed_days))}

\* C11: a build that succeeds has an item for every row that was committed
\* when it read the table and whose last_checked is in the 7 days before the
\* build's reading of the clock (the rows being fewer than the cap), the
\* rows a pass that is still Running has committed included
C11_FeedFreshness ==
    [][\A r \in Readers :
         (rpc[r] = "idle" /\ build'[r] = "ok" /\ Cardinality(InWindow(clock')) <= feed_limit)
         => \A row \in InWindow(clock') :
               \E i \in 1..Len(rss_items') :
                  /\ rss_items'[i].guid = row.ad_id
                  /\ rss_items'[i].pubDate = isoparse(row.last_checked)]_vars

\* a build has an item for the row that a pass has committed and not yet
\* put into the feed itself, the pass being still Running
C11_Witness ==
    \E r \in Readers : \E t \in Triggers :
        /\ rpc[r] = "to_xml" /\ build[r] = "ok"
        /\ pc[t] = "publish"
        /\ created[CurrentAd(t).ad_id] = {now_utc[t]}
        /\ \E i \in 1..Len(rss_items) :
              rss_items[i].guid = CurrentAd(t).ad_id /\ rss_items[i].pubDate = now_utc[t]

\* C12: a feed request takes its steps whatever the state of the run guard
\* and of the passes, and its steps leave the guard and the passes as they are
C12_FeedGuardFree ==
    /\ [](\A r \in Readers : ENABLED FeedStep(r))
    /\ [][\A r \in Readers :
            (rpc'[r] # rpc[r]) => (job_lock' = job_lock /\ UNCHANGED passVars)]_vars

\* a feed request has built the feed and is about to serialize it while a
\* pass holds the guard, before and after the build
C12_Witness ==
    \E r \in Readers : \E t \in Triggers :
        rpc[r] = "to_xml" /\ build[r] = "ok" /\ job_lock /\ pc[t] = "write"
            /\ Len(rss_items) = 1

\* a policy that maps level names to lists of str
IsWellFormed(f) ==
    /\ f.t = "dict"
    /\ \A key \in DOMAIN f.v :
         f.v[key].t = "list" /\ \A i \in 1..Len(f.v[key].v) : f.v[key].v[i].t = "str"

\* some keyword of the list is in the title, whatever the case of either
SomeKeywordIn(keywords, title) ==
    \E i \in 1..Len(keywords) : Contains(Lower(title), Lower(keywords[i].v))

\* every level that has keywords has one in the title
EveryLevelMatches(d, title) ==
    \A key \in DOMAIN d :
        (IsLevelKey(key) /\ Len(d[key].v) > 0) => SomeKeywordIn(d[key].v, title)

ExamplePolicy ==
    JDict((Level1 :> JList(<<JStr(<<"a">>), JStr(<<"b">>)>>))
          @@ (Level2 :> JList(<<JStr(<<"c">>)>>)))

\* C13: for a policy that maps level names to lists of str, apply_filters
\* returns true iff every level with a non-empty list has a keyword that is
\* in the title, case ignored; without a policy it returns true; and with
\* {level1: [a, b], level2: [c]} of "xyz", "a c", "a", "c" only "a c" passes
C13_FilterAndAcrossLevels ==
    (call.fn = "apply_filters" /\ call.ret # <<>>) =>
        /\ call.filters = <<>> => call.ret[1] = TRUE
        /\ (call.filters # <<>> /\ IsWellFormed(call.filters[1])) =>
              call.ret[1] = EveryLevelMatches(call.filters[1].v, call.title)
        /\ call.filters = <<ExamplePolicy>> =>
              call.ret[1] = (call.title \in {<<"a", " ", "c">>, <<"A", " ", "C">>})

\* the example policy has rejected "a", which has a keyword of level1 alone
C13_Witness ==
    /\ call.fn = "apply_filters"
    /\ call.filters = <<ExamplePolicy>>
    /\ call.title = <<"a">>
    /\ call.ret = <<FALSE>>

\* what is left of a level's value once the entries that are no str are gone
StrEntries(v) ==
    IF v.t # "list" THEN <<>>
    ELSE SelectSeq(v.v, LAMBDA e : e.t = "str")

\* the levels that are lists of str, with keywords, taken alone accept the title
RemainderAccepts(f, title) ==
    f.t = "dict" =>
        \A key \in DOMAIN f.v :
            (/\ IsLevelKey(key)
             /\ f.v[key].t = "list"
             /\ Len(f.v[key].v) > 0
             /\ StrEntries(f.v[key]) = f.v[key].v)
            => SomeKeywordIn(f.v[key].v, title)

\* C14: a policy that is no mapping, a level that is no list and a level
\* with a keyword that is no str impose no constraint: apply_filters accepts
\* every title that the rest of the policy accepts
C14_MalformedFailOpen ==
    (call.fn = "apply_filters" /\ call.ret # <<>> /\ call.filters # <<>>) =>
        (RemainderAccepts(call.filters[1], call.title) => call.ret[1] = TRUE)

\* C15: a prune that succeeds at day now leaves the rows last checked at or
\* after now - 14 days, each as it was, and no other row, and its
\* deleted_count is the number of rows it took away
C15_PruneCorrect ==
    (call.fn = "prune_old_ads" /\ call.ret # <<>>) =>
        (call.ret[1].deleted_count # <<>> =>
            /\ call.ret[1].rows =
                  {row \in call.rows : isoparse(row.last_checked) >= call.now - 14}
            /\ call.ret[1].deleted_count[1] =
                  Cardinality(call.rows) - Cardinality(call.ret[1].rows))

\* a prune at day 28 has deleted a row last checked at day 13 and kept one
\* last checked at day 14, the cutoff
C15_Witness ==
    /\ call.fn = "prune_old_ads"
    /\ call.now = 28
    /\ call.ret # <<>>
    /\ call.ret[1].deleted_count = <<1>>
    /\ \E row \in call.rows : isoparse(row.last_checked) = 13
    /\ \E row \in call.ret[1].rows : isoparse(row.last_checked) = 14

\* the feed item that stands for a row
IsItemOf(item, row) ==
    /\ item.guid = row.ad_id
    /\ item.link = row.url
    /\ item.title = row.title \o <<" - ">> \o row.price
    /\ item.pubDate = isoparse(row.last_checked)

\* C16: a build at day now has one item for each row last checked at or
\* after now - 7 days and none for another row, no row twice, in descending
\* order of last_checked, cut to the limit's most recent rows
C16_FeedWindowOrderLimit ==
    (call.fn = "generate_rss_feed_from_db" /\ call.ret # <<>>) =>
        LET items == call.ret[1]
            window == {row \in call.rows : isoparse(row.last_checked) >= call.now - 7}
            shown == {row \in window : \E i \in 1..Len(items) : IsItemOf(items[i], row)}
        IN  /\ Len(items) = IF Cardinality(window) < call.limit
                            THEN Cardinality(window) ELSE call.limit
            /\ \A i \in 1..Len(items) : \E row \in window : IsItemOf(items[i], row)
            /\ \A i, j \in 1..Len(items) : i # j => items[i].guid # items[j].guid
            /\ \A i, j \in 1..Len(items) : i < j => items[i].pubDate >= items[j].pubDate
            /\ \A row \in window \ shown : \A i \in 1..Len(items) :
                  isoparse(row.last_checked) <= items[i].pubDate
            /\ call.limit = feed_limit => shown = window

\* a build with LIMIT 2 of a table with a row before the window, one at its
\* start and one inside it has the two rows of the window, the later first
C16_Witness ==
    /\ call.fn = "generate_rss_feed_from_db"
    /\ call.limit = 2
    /\ call.ret # <<>>
    /\ {isoparse(row.last_checked) : row \in call.rows} = {0, 7, 10}
    /\ Len(call.ret[1]) = 2
    /\ call.ret[1][1].pubDate = 10
    /\ call.ret[1][2].pubDate = 7

\* the text begins with the symbol
BeginsWith(text, symbol) ==
    Len(text) >= Len(symbol) /\ \A i \in 1..Len(symbol) : text[i] = symbol[i]

\* the text has f, r, e, e in a row, in either case
HasFree(text) ==
    \E i \in 1..(Len(text) - 3) :
        /\ text[i] \in {"f", "F"}
        /\ text[i + 1] \in {"r", "R"}
        /\ text[i + 2] \in {"e", "E"}
        /\ text[i + 3] \in {"e", "E"}

\* C17: the price test holds iff the price begins with the configured
\* currency symbol or has 'free' in it in either case ("$50" under "$" passes,
\* "EUR50" under "$" fails, "Free" passes under every symbol), and every ad
\* extract_ad_details returns is of an anchor of the page that has a title
\* and a price that passes the test
C17_CurrencyGate ==
    /\ (call.fn = "price_gate" /\ call.ret # <<>>) =>
          /\ call.ret[1] = (BeginsWith(call.price, call.currency) \/ HasFree(call.price))
          /\ (call.price = <<"$", "5", "0">> /\ call.currency = <<"$">>) => call.ret[1]
          /\ (call.price = <<"EUR", "5", "0">> /\ call.currency = <<"$">>) => ~call.ret[1]
          /\ call.price = <<"F", "r", "e", "e">> => call.ret[1]
    /\ (call.fn = "extract_ad_details" /\ call.ret # <<>>) =>
          \A i \in 1..Len(call.ret[1]) :
              \E j \in 1..Len(call.content) :
                  /\ call.content[j].title = <<call.ret[1][i].title>>
                  /\ call.content[j].price = <<call.ret[1][i].price>>
                  /\ BeginsWith(call.ret[1][i].price, currency) \/ HasFree(call.ret[1][i].price)

\* of a page with a price in another currency and a price 'Free' the
\* extractor has returned the second alone
C17_Witness ==
    /\ call.fn = "extract_ad_details"
    /\ call.ret # <<>>
    /\ Len(call.content) = 2
    /\ call.content[1].price = <<PriceEuro>> /\ call.content[1].title # <<>>
    /\ call.content[2].price = <<PriceFree>>
    /\ Len(call.ret[1]) = 1
    /\ call.ret[1][1].price = PriceFree

\* the row the pass of t has inserted for the ad it is at
InsertedRow(t) ==
    [url |-> CurrentAd(t).ad_url, ad_id |-> CurrentAd(t).ad_id,
     title |-> CurrentAd(t).title, price |-> CurrentAd(t).price,
     first_seen |-> isoformat(now_utc[t]), last_checked |-> isoformat(now_utc[t])]

\* C18: an item goes into the feed of a pass exactly for a row the pass has
\* inserted and committed: a pass is about to put an item only with its
\* committed row in the table; the feed grows only by that item, at the
\* front; and a write of a pass that makes a row where none was is followed
\* by the item, while a write for a row that is there, or one that fails, is
\* not
C18_EventOnCommittedInsert ==
    /\ [](\A t \in Triggers :
            pc[t] = "publish" =>
                /\ SqlSelectAd(db, CurrentAd(t).ad_id) = {InsertedRow(t)}
                /\ now_utc[t] \in created[CurrentAd(t).ad_id]
                /\ CurrentAd(t).ad_id \notin added[t])
    /\ [][rss_items' # rss_items =>
            \E t \in Triggers :
                /\ pc[t] = "publish" /\ pc'[t] # "publish"
                /\ rss_items' = <<RSSItem(InsertedRow(t).title, InsertedRow(t).price,
                                          InsertedRow(t).url, InsertedRow(t).ad_id,
                                          now_utc[t])>> \o rss_items]_vars
    /\ [][\A t \in Triggers :
            (pc[t] = "write" /\ pc'[t] # "write") =>
                (pc'[t] = "publish" <=>
                    (SqlSelectAd(db, CurrentAd(t).ad_id) = {} /\ db' # db))]_vars

\* the one item of the feed is of the row's insert, and a later pass, which
\* has updated the row's last_checked and put no item, is still Running
C18_Witness ==
    \E t \in Triggers : \E row \in db :
        /\ db = {row}
        /\ Len(rss_items) = 1
        /\ rss_items[1].guid = row.ad_id
        /\ rss_items[1].pubDate = isoparse(row.first_seen)
        /\ TextLess(row.first_seen, row.last_checked)
        /\ pc[t] = "prune"

\* the pass of t goes on to the ad after the one it is at, or, that being
\* the last of the url, to what comes after the url
GoesOnToNextAd(t) ==
    IF k[t] < Len(ads[t])
    THEN pc'[t] = "select" /\ k'[t] = k[t] + 1 /\ ads'[t] = ads[t] /\ idx'[t] = idx[t]
    ELSE pc'[t] \in {"source", "prune"} /\ idx'[t] = idx[t] + 1

\* the table differs from rows at most in the last_checked of the row of id
OnlyLastCheckedOf(id, rows, after) ==
    /\ \A row \in rows : row.ad_id # id => row \in after
    /\ \A row \in after : \E old \in rows : [row EXCEPT !.last_checked = old.last_checked] = old
    /\ Cardinality(after) = Cardinality(rows)

\* C19: a pass whose INSERT of a listing the lookup did not find meets a row
\* of the listing sets that row's last_checked to its timestamp and nothing
\* else in the table, puts no item into the feed and goes on to the next
\* listing
C19_RaceRecovery ==
    [][\A t \in Triggers :
         (/\ pc[t] = "write" /\ pc'[t] # "write"
          /\ ~existing[t]
          /\ UniqueViolation(db, CurrentAd(t).ad_id))
         => /\ OnlyLastCheckedOf(CurrentAd(t).ad_id, db, db')
            /\ \A row \in SqlSelectAd(db', CurrentAd(t).ad_id) :
                  row.last_checked = isoformat(now_utc[t])
            /\ rss_items' = rss_items
            /\ GoesOnToNextAd(t)]_vars

\* C20: a pass that finds a row for the listing it is at changes at most
\* that row's last_checked: the row's first_seen, title, price and url and
\* every other row stay, and no row comes or goes
C20_TouchFrame ==
    [][\A t \in Triggers :
         (pc[t] = "write" /\ pc'[t] # "write" /\ existing[t])
         => /\ OnlyLastCheckedOf(CurrentAd(t).ad_id, db, db')
            /\ rss_items' = rss_items]_vars

\* a pass has updated the last_checked of listing 1, which its page showed
\* with another title than the row has, beside the row of listing 2
C20_Witness ==
    \E t \in Triggers : \E row, other \in db :
        /\ pc[t] = "select" /\ k[t] = 2
        /\ row.ad_id = ads[t][1].ad_id
        /\ row.title # ads[t][1].title
        /\ TextLess(row.first_seen, row.last_checked)
        /\ row.last_checked = isoformat(clock)
        /\ other.ad_id # row.ad_id
        /\ TextLess(other.last_checked, row.last_checked)

\* C21: what a pass has committed stays: a step of a pass at one listing
\* leaves the rows of every other listing as they are, a step that is no
\* write for a listing and no prune leaves the whole table as it is, end of
\* the pass included, and the listings the pass has inserted have their rows
\* for as long as the pass goes through its urls
C21_PartialProgressKept ==
    /\ [][\A t \in Triggers :
            (pc'[t] # pc[t] \/ k'[t] # k[t]) =>
                /\ pc[t] \in {"select", "write", "publish"} =>
                      \A row \in db : row.ad_id # CurrentAd(t).ad_id => row \in db'
                /\ pc[t] \in {"idle", "connect", "source", "fetch", "select", "publish",
                              "finally", "skipped", "returned"} => db' = db]_vars
    /\ [](\A t \in Triggers :
            (InLoop(t) \/ pc[t] = "prune") =>
                \A id \in added[t] : SqlSelectAd(db, id) # {})

\* at its second url the pass has failed to insert the first listing of the
\* page, which has no row, and is at the second listing, which it inserted
\* under the first url and which has its row
C21_Witness ==
    \E t \in Triggers :
        /\ pc[t] = "select" /\ k[t] = 2 /\ idx[t] = 2
        /\ SqlSelectAd(db, ads[t][1].ad_id) = {}
        /\ ads[t][2].ad_id \in added[t]
        /\ Cardinality(db) = 1

\* C22: a pass that gets no connection goes straight to its end: it has
\* taken up no url and started no browser session, neither of its two steps
\* changes the table, the feed's items or the clock, none of them is a
\* prune, and the second releases the lock
C22_NoConnectionAborts ==
    /\ [](\A t \in Triggers :
            (Running(t) /\ pc[t] # "connect" /\ ~conn[t]) =>
                /\ pc[t] = "finally"
                /\ attempted[t] = <<>> /\ added[t] = {} /\ ads[t] = <<>>
                /\ ~driver)
    /\ [][\A t \in Triggers :
            (pc'[t] # pc[t] /\ ~conn[t] /\ ~conn'[t] /\ pc[t] \in {"connect", "finally"}) =>
                /\ UNCHANGED <<db, rss_items, clock, driver, created>>
                /\ pc[t] = "connect" => (pc'[t] = "finally" /\ job_lock')
                /\ pc[t] = "finally" => (pc'[t] = "returned" /\ ~job_lock')]_vars

\* a pass without a connection is about to end, the lock still held, the
\* table and the feed as an earlier pass left them
C22_Witness ==
    \E t \in Triggers :
        /\ pc[t] = "finally" /\ ~conn[t] /\ job_lock
        /\ db # {}
        /\ Len(rss_items) = Cardinality(db)

\* C23: a pass with a connection comes to prune_old_ads once: it gets there
\* from the loop over the urls with every url taken up, goes from there to
\* its end with the lock held, and gets to its end no other way; and rows
\* leave the table in that step alone, so never between two urls
C23_PruneOncePerPass ==
    [][\A t \in Triggers :
         pc'[t] # pc[t] =>
            /\ pc'[t] = "prune" =>
                  /\ pc[t] \in {"connect", "source", "fetch", "select", "write", "publish"}
                  /\ conn'[t]
                  /\ attempted'[t] = urls_to_monitor
            /\ pc[t] = "prune" => (pc'[t] = "finally" /\ job_lock /\ job_lock')
            /\ (pc'[t] = "finally" /\ conn[t]) => pc[t] = "prune"
            /\ pc[t] # "prune" => \A row \in db : SqlSelectAd(db', row.ad_id) # {}]_vars

\* a pass none of whose urls gave a listing has been through prune_old_ads
\* and still holds the lock
C23_Witness ==
    \E t \in Triggers :
        /\ pc[t] = "finally" /\ conn[t] /\ job_lock
        /\ attempted[t] = urls_to_monitor
        /\ db = {} /\ created = [id \in Ids |-> {}]

\* the listing url an anchor points at, with no query string
CanonicalUrl(anchor) ==
    LET n == Len(anchor.href)
        cut == IF \E i \in 1..n : anchor.href[i] = "?"
               THEN (CHOOSE i \in 1..n :
                        /\ anchor.href[i] = "?"
                        /\ \A j \in 1..(i - 1) : anchor.href[j] # "?") - 1
               ELSE n
    IN  FACEBOOK_BASE_URL \o [i \in 1..cut |-> anchor.href[i]]

\* the anchors of a page that point at a listing url
PointsAt(content, url) ==
    {j \in 1..Len(content) :
        /\ content[j].href # <<>>
        /\ content[j].href[1] = ITEM_PREFIX
        /\ CanonicalUrl(content[j]) = url}

\* the first anchor of a page that points at a listing url
FirstAnchor(content, url) ==
    CHOOSE j \in PointsAt(content, url) : \A j2 \in PointsAt(content, url) : j <= j2

\* C24: of one page extract_ad_details returns at most one record for a
\* listing url, every record has the title and the price of the first anchor
\* of the page that points at its url, and the records are in the document
\* order of those first anchors
C24_PageLocalDedup ==
    (call.fn = "extract_ad_details" /\ call.ret # <<>>) =>
        LET found == call.ret[1]
        IN  /\ \A i, j \in 1..Len(found) :
                  found[i].ad_url = found[j].ad_url => i = j
            /\ \A i \in 1..Len(found) :
                  /\ PointsAt(call.content, found[i].ad_url) # {}
                  /\ call.content[FirstAnchor(call.content, found[i].ad_url)].title
                        = <<found[i].title>>
                  /\ call.content[FirstAnchor(call.content, found[i].ad_url)].price
                        = <<found[i].price>>
            /\ \A i, j \in 1..Len(found) :
                  i < j => FirstAnchor(call.content, found[i].ad_url)
                              < FirstAnchor(call.content, found[j].ad_url)

\* of a page whose two anchors point at one listing, the second with a query
\* string and another title, the extractor has returned the first alone
C24_Witness ==
    /\ call.fn = "extract_ad_details"
    /\ call.ret # <<>>
    /\ Len(call.content) = 2
    /\ call.content[1].href = <<ITEM_PREFIX, "1">>
    /\ call.content[2].href = <<ITEM_PREFIX, "1", "?", "ref">>
    /\ call.source_url = S2
    /\ Len(call.ret[1]) = 1
    /\ call.ret[1][1].title = TitleA

\* a url up to its first "?"
UpToQuery(url) ==
    LET stops == {i \in 1..Len(url) : url[i] = "?"} \cup {Len(url) + 1}
    IN  [i \in 1..((CHOOSE i \in stops : \A j \in stops : i <= j) - 1) |-> url[i]]

\* two urls that differ in their query strings at most
SameListing(u1, u2) == UpToQuery(u1) = UpToQuery(u2)

\* the ads a running pass has extracted, as (url, identity) pairs
SightedPairs ==
    UNION {{<<ads[t][i].ad_url, ads[t][i].ad_id>> : i \in 1..Len(ads[t])} : t \in Triggers}

\* the rows of the table, as (url, identity) pairs
StoredPairs == {<<row.url, row.ad_id>> : row \in db}

\* C25: among the ads extracted (from any page, of any url, in any pass) and
\* the rows of the table, two have one identity exactly if their urls differ
\* in the query string at most, no url kept has a query string, and the
\* table has one row at most for a listing
C25_IdentityOfCanonicalUrl ==
    /\ \A p, q \in SightedPairs \cup StoredPairs :
          /\ SameListing(p[1], q[1]) <=> p[2] = q[2]
          /\ UpToQuery(p[1]) = p[1]
    /\ \A r1, r2 \in db : SameListing(r1.url, r2.url) => r1 = r2

\* a pass has come a second time upon a listing, now through the link with a
\* query string (the other title), and the table has the one row of the
\* first sighting for it
C25_Witness ==
    \E t \in Triggers :
        /\ pc[t] = "select" /\ k[t] = 2
        /\ ads[t][1].title = TitleC
        /\ \E row \in db :
              /\ row.ad_id = ads[t][1].ad_id
              /\ row.title = TitleA
              /\ row.last_checked # row.first_seen
        /\ Cardinality(db) = 1

\* the url a running pass is at
SourceOf(t) == urls_to_monitor[idx[t]]

\* the policy configured for a url accepts a title
SourceAccepts(u, title) == EveryLevelMatches(url_filters[u].v, title)

\* the listing of the link with a query string, as the unfiltered page gives it
OtherTitleAd ==
    CHOOSE ad \in AllAds : ad.title = TitleC /\ ad.price = PriceFree

\* C26: with the two urls configured in either order, every ad a pass has
\* from a page is one the policy of that page's url accepts; at the url
\* whose policy accepts it the listing the other policy rejects can be had
\* from the page, at the other url it cannot, wherever the two stand in the
\* list; and a sighting is passed over only when this pass has stored the
\* listing, goes otherwise to the write unless the SELECT fails, and is
\* inserted there when the table has no row for it
C26_FilterKeyedBySource ==
    /\ [](\A t \in Triggers :
            /\ pc[t] \in {"select", "write", "publish"} =>
                  \A i \in 1..Len(ads[t]) : SourceAccepts(SourceOf(t), ads[t][i].title)
            /\ pc[t] = "fetch" =>
                  /\ ~SourceAccepts(S1, OtherTitleAd.title)
                  /\ SourceAccepts(S2, OtherTitleAd.title)
                  /\ SourceOf(t) = S2 <=> <<OtherTitleAd>> \in AdsOf[SourceOf(t)]
            /\ (pc[t] = "select" /\ CurrentAd(t).ad_id \in added[t]) =>
                  SqlSelectAd(db, CurrentAd(t).ad_id) # {})
    /\ [][\A t \in Triggers :
            /\ (pc[t] = "select" /\ pc'[t] # "select" /\ CurrentAd(t).ad_id \notin added[t]) =>
                  pc'[t] = "write" \/ (db' = db /\ added' = added)
            /\ (pc[t] = "write" /\ pc'[t] = "publish") =>
                  /\ SqlSelectAd(db, CurrentAd(t).ad_id) = {}
                  /\ \E row \in db' :
                        /\ row.ad_id = CurrentAd(t).ad_id
                        /\ row.title = CurrentAd(t).title]_vars

\* with the accepting url configured first, a pass has been through both
\* urls and the table has the listing under the title the other url's
\* policy rejects
C26_Witness ==
    \E t \in Triggers :
        /\ urls_to_monitor = <<S2, S1>>
        /\ pc[t] = "prune"
        /\ attempted[t] = urls_to_monitor
        /\ \E row \in db : row.ad_id = OtherTitleAd.ad_id /\ row.title = TitleC
        /\ Cardinality(db) = 1

\* C27: self.driver is set only while the one pass that holds job_lock is
\* between init_selenium and the quit after the page of a url; a url comes
\* to its fetch from a state with no driver and leaves it with none, so the
\* driver is quit before an ad of the url is looked up or written, and there
\* is none once no pass runs
C27_SessionScoped ==
    /\ [](driver =>
            /\ job_lock
            /\ \E t \in Triggers : pc[t] = "fetch" /\ RunningSet = {t})
    /\ [](\A t \in Triggers :
            pc[t] \in {"select", "write", "publish", "prune", "finally"} => ~driver)
    /\ [](RunningSet = {} => ~driver)
    /\ [][\A t \in Triggers :
            /\ (pc'[t] = "fetch" /\ pc[t] # "fetch") =>
                  (pc[t] = "source" /\ ~driver /\ driver')
            /\ (pc[t] = "fetch" /\ pc'[t] # "fetch") => ~driver'
            /\ (pc[t] = "source" /\ pc'[t] # "source") => (driver' <=> pc'[t] = "fetch")]_vars

\* a pass is at the write of an ad of a fetched page with the driver quit,
\* and the other trigger has been turned away
C27_Witness ==
    \E t, t2 \in Triggers :
        /\ pc[t] = "write" /\ ~existing[t]
        /\ ~driver /\ job_lock
        /\ pc[t2] = "skipped"

\* C28: from the build of a feed request to its to_xml the list of items
\* stays as the request built it from its own read of the table, whatever a
\* pass does meanwhile, and the list serialized has no two items of one
\* identity and feed_limit items at most
C28_ServesOwnBuild ==
    /\ [][\A r \in Readers :
            (rpc[r] = "to_xml" /\ build[r] = "ok") => rss_items' = rss_items]_vars
    /\ [](\A r \in Readers :
            (rpc[r] = "to_xml" /\ build[r] = "ok") =>
                /\ \A i, j \in 1..Len(rss_items) :
                      rss_items[i].guid = rss_items[j].guid => i = j
                /\ Len(rss_items) <= feed_limit)

\* a write of the pass of t ends: the listing has a row whose last_checked
\* is the timestamp the pass took for the sighting, or the table is as it
\* was (the statement failed); and no step of the loop takes a row away
SightingWritten ==
    [][\A t \in Triggers :
         /\ (pc[t] = "write" /\ pc'[t] # "write") =>
               \/ \E row \in db' :
                     /\ row.ad_id = CurrentAd(t).ad_id
                     /\ row.last_checked = isoformat(now_utc[t])
               \/ db' = db
         /\ (InLoop(t) /\ pc'[t] # pc[t]) =>
               \A row \in db : SqlSelectAd(db', row.ad_id) # {}]_vars

\* C29 as stated: every sighting a pass writes leaves the listing with a row
\* of that pass's timestamp, the loop takes no row away, and the prune at the
\* end of the pass deletes no row the pass has created
C29_PruneSparesThisPass ==
    /\ SightingWritten
    /\ [][\A t \in Triggers :
            pc[t] = "prune" => \A id \in added[t] : SqlSelectAd(db', id) # {}]_vars

\* C29, amended: every sighting a pass writes leaves the listing with a row
\* of that pass's timestamp, the loop takes no row away, and the prune at the
\* end of the pass keeps every row whose last_checked is days_to_keep days
\* or less before the clock of the prune; the rows it deletes are further
\* back than that, be they of this pass or not
C29_PruneSparesWithinWindow ==
    /\ SightingWritten
    /\ [][\A t \in Triggers :
            (pc[t] = "prune" /\ pc'[t] = "finally") =>
                \A row \in db :
                    IF clock' - isoparse(row.last_checked) <= days_to_keep
                    THEN row \in db'
                    ELSE row \notin db' \/ db' = db]_vars

\* the prune of a pass has run days_to_keep days after the pass created a
\* row, and the row is kept
C29_Witness ==
    \E t \in Triggers :
        /\ pc[t] = "finally" /\ conn[t]
        /\ clock = days_to_keep
        /\ \E row \in db :
              /\ row.ad_id \in added[t]
              /\ row.last_checked = isoformat(0)
        /\ Cardinality(db) = 2

\* C30: a pass takes a listing as handled only on putting the item of the
\* row it has inserted for it, so every listing in added_ad_ids_this_run has
\* a row this pass created; a sighting of any other listing is not passed
\* over but goes to the write (unless the SELECT fails), each time it is
\* sighted; and such a write for a listing that has a row (one that was
\* there at the SELECT, or one that won the race against the INSERT) sets
\* the row's last_checked to the timestamp of this sighting, leaves the
\* listing with its one row, puts no item and marks nothing as handled, or
\* fails and changes nothing
C30_OnlyCreatedAreHandled ==
    /\ [][\A t \in Triggers :
            (added'[t] # added[t] /\ pc[t] # "finally") =>
                /\ pc[t] = "publish"
                /\ added'[t] = added[t] \cup {CurrentAd(t).ad_id}
                /\ SqlSelectAd(db, CurrentAd(t).ad_id) = {InsertedRow(t)}]_vars
    /\ [][\A t \in Triggers :
            (pc[t] = "select" /\ pc'[t] # "select" /\ CurrentAd(t).ad_id \notin added[t]) =>
                \/ pc'[t] = "write" /\ ads'[t] = ads[t] /\ k'[t] = k[t]
                \/ pc'[t] \in {"source", "prune"} /\ idx'[t] = idx[t] + 1]_vars
    /\ [][\A t \in Triggers :
            (/\ pc[t] = "write" /\ pc'[t] # "write"
             /\ SqlSelectAd(db, CurrentAd(t).ad_id) # {}) =>
                /\ rss_items' = rss_items
                /\ added' = added
                /\ \/ db' = db
                   \/ \E row \in db :
                         /\ row.ad_id = CurrentAd(t).ad_id
                         /\ SqlSelectAd(db, row.ad_id) = {row}
                         /\ db' = (db \ {row}) \cup
                                     {[row EXCEPT !.last_checked = isoformat(now_utc[t])]}]_vars

\* in one pass a listing that had its row before has been sighted under the
\* first url and touched, and is now sighted under the second with a later
\* timestamp; the pass has handled nothing
C30_Witness ==
    \E t \in Triggers : \E row \in db :
        /\ pc[t] = "write" /\ existing[t] /\ idx[t] = 2
        /\ added[t] = {}
        /\ db = {row}
        /\ row.ad_id = CurrentAd(t).ad_id
        /\ row.first_seen = isoformat(0)
        /\ row.last_checked = isoformat(TickDays)
        /\ now_utc[t] = 2 * TickDays
        /\ Len(rss_items) = 1

\* an anchor has a title and a price, the price passes the currency test and
\* the policy of the page's url accepts the title
AnchorPasses(anchor, source_url) ==
    /\ anchor.title # <<>>
    /\ anchor.price # <<>>
    /\ BeginsWith(anchor.price[1], currency) \/ HasFree(anchor.price[1])
    /\ SourceAccepts(source_url, anchor.title[1])

\* C31: of one page extract_ad_details returns a record for a listing url
\* exactly if the first anchor of the page that points at the url has a
\* title and a price that pass the currency test and the filter; when that
\* first anchor fails, the url has no record, whatever a later anchor of the
\* same url carries
C31_OnlyFirstAnchorEvaluated ==
    (call.fn = "extract_ad_details" /\ call.ret # <<>>) =>
        \A j \in 1..Len(call.content) :
            (call.content[j].href # <<>> /\ call.content[j].href[1] = ITEM_PREFIX) =>
                LET url == CanonicalUrl(call.content[j])
                    first == call.content[FirstAnchor(call.content, url)]
                IN  (\E i \in 1..Len(call.ret[1]) : call.ret[1][i].ad_url = url)
                        <=> AnchorPasses(first, call.source_url)

\* of a page whose first anchor of a listing has no title and whose second
\* anchor of the same listing has a title and a price in the currency, the
\* extractor has returned nothing
C31_Witness ==
    /\ call.fn = "extract_ad_details"
    /\ call.ret = <<<<>>>>
    /\ call.source_url = S2
    /\ Len(call.content) = 2
    /\ call.content[1].href = call.content[2].href
    /\ call.content[1].href[1] = ITEM_PREFIX
    /\ call.content[1].title = <<>>
    /\ AnchorPasses(call.content[2], S2)

====
